---- MODULE Spec2Model ----
(***************************************************************************)
(* Flix-Flow: the recommendation orchestrator (orchestrator.py), the       *)
(* ranker (ranker.py), the three candidate sources (engines/) and the      *)
(* request handlers of main.py, as a state machine.                        *)
(*                                                                         *)
(* Numbers.  Python floats are modelled as exact rationals <<n, d>> with   *)
(* d > 0, kept in lowest terms.  Weights are integers in thousandths       *)
(* (0.5 is 500), ratings are integers in tenths of a star (4.0 is 40).     *)
(***************************************************************************)
EXTENDS Integers, Sequences, FiniteSets, TLC

VARIABLES
    \* ---- the database (database.py) and the process-wide cache ----
    users,          \* users table: userId -> rating_count column
    ratings,        \* ratings table: <<userId, movieId>> -> rating (tenths)
    global_mean,    \* StatisticalEngine.global_mean (None until first use)
    weights,        \* the weights _hybrid_recommendations passes (thousandths)
    down,           \* the candidate sources whose calls raise an exception
    request,        \* the last request handled by main.py (op "none": none yet)
    resp,           \* its response
                    \* (status 0: none yet)
    invoked,        \* the candidate sources invoked by the last request, in order
    classified,     \* whether the last request called is_new_user
    \* ---- one call of Ranker.merge_and_rank / normalize_scores ----
    collab_recs, content_recs, stats_recs,   \* the three arguments
    mr_weights,     \* the weights argument
    mr_pc,          \* "idle" | "normalized" | "merged" | "rejected"
    normalized,     \* the dict returned by normalize_scores
    mr_norm,        \* the three normalized dicts inside merge_and_rank
    ranked,         \* the list returned by merge_and_rank
    \* ---- one call of Ranker.rerank_with_diversity ----
    recommendations, \* the argument list (the caller's list object)
    diversity_factor,\* the argument, in tenths
    remaining, result, seen_genres, \* the locals of the loop
    rr_pc,          \* "start" | "loop" | "done"
    \* ---- requests inside StatisticalEngine.calculate_global_mean ----
    gm_calls,       \* per request: where it is, its local result, what it
                    \* returned
    loop_owner,     \* the request whose handler the event loop is running
    gm_queries,     \* how many times the database average was computed
    db_avg          \* what func.avg(Movie.avg_rating) yields now

vars == <<users, ratings, global_mean, weights, down, request, resp, invoked,
          classified,
          collab_recs, content_recs, stats_recs, mr_weights, mr_pc,
          normalized, mr_norm, ranked,
          recommendations, diversity_factor, remaining, result, seen_genres,
          rr_pc, gm_calls, loop_owner, gm_queries, db_avg>>

sysVars == <<users, ratings, global_mean, weights, down, request, resp, invoked,
            classified>>
mrVars == <<collab_recs, content_recs, stats_recs, mr_weights, mr_pc,
            normalized, mr_norm, ranked>>
rrVars == <<recommendations, diversity_factor, remaining, result,
            seen_genres, rr_pc>>
gmVars == <<gm_calls, loop_owner, gm_queries, db_avg>>

\* Python's None where a record, a list or a number may stand
None == <<>>
\* rating=None in an onboarding request
NoRating == -1

-----------------------------------------------------------------------------
(* Bounds of the model *)

\* total records over the three argument lists of one merge_and_rank call
MaxRecs == 3
\* length of the argument list of one rerank_with_diversity call
MaxRerank == 3
\* the largest movieId a /rate request names
MaxMovie == 5
\* concurrent requests that call calculate_global_mean
MaxHandlers == 3

-----------------------------------------------------------------------------
(* Exact rational arithmetic standing in for Python floats *)

Abs(x) == IF x < 0 THEN -x ELSE x

RECURSIVE GCD(_, _)
GCD(a, b) == IF b = 0 THEN a ELSE GCD(b, a % b)

Rat(n, d) ==
    LET g == GCD(Abs(n), d) IN <<n \div g, d \div g>>

RInt(n) == <<n, 1>>
RAdd(a, b) == Rat(a[1] * b[2] + b[1] * a[2], a[2] * b[2])
RSub(a, b) == Rat(a[1] * b[2] - b[1] * a[2], a[2] * b[2])
RMul(a, b) == Rat(a[1] * b[1], a[2] * b[2])
\* a / b for b > 0
RDiv(a, b) == Rat(a[1] * b[2], a[2] * b[1])
RLt(a, b) == a[1] * b[2] < b[1] * a[2]
RLe(a, b) == a[1] * b[2] <= b[1] * a[2]
RMin(a, b) == IF RLt(b, a) THEN b ELSE a

-----------------------------------------------------------------------------
(* Sequences *)

Range(s) == {s[i] : i \in DOMAIN s}

RECURSIVE SeqSum(_)
SeqSum(s) == IF s = <<>> THEN 0 ELSE Head(s) + SeqSum(Tail(s))

\* Python's s[:n]
Take(s, n) == SubSeq(s, 1, IF n < Len(s) THEN n ELSE Len(s))

\* the duplicate-free enumerations of the finite set S
Orders(S) ==
    {o \in [1..Cardinality(S) -> S] : \A i, j \in 1..Cardinality(S) :
        i # j => o[i] # o[j]}

\* sorted(recs, key=..., reverse=True): Python's sort is stable, also with
\* reverse=True, so a record goes after every record whose key is >= its own.
\* key(a) <= key(b); "count,score" is the tuple key (x["count"], x["score"])
KeyLe(a, b, key) ==
    IF key = "count,score"
    THEN a.count < b.count \/ (a.count = b.count /\ RLe(a.score, b.score))
    ELSE RLe(a[key], b[key])

InsertDesc(sorted, x, key) ==
    LET before == {i \in DOMAIN sorted : KeyLe(x, sorted[i], key)}
        k == IF before = {} THEN 0
             ELSE CHOOSE i \in before : \A j \in before : j <= i
    IN SubSeq(sorted, 1, k) \o <<x>> \o SubSeq(sorted, k + 1, Len(sorted))

RECURSIVE SortDescFrom(_, _, _, _)
SortDescFrom(recs, key, i, acc) ==
    IF i > Len(recs) THEN acc
    ELSE SortDescFrom(recs, key, i + 1, InsertDesc(acc, recs[i], key))

\* variant: the list left in the order it was built
SortDesc_Unsorted(recs, key) == recs

SortDesc(recs, key) == SortDescFrom(recs, key, 1, <<>>)

-----------------------------------------------------------------------------
(* ranker.py: Ranker.normalize_scores *)

\* a Python dict with keys K, as a function
MovieIdsOf(recs) == {recs[i].movieId : i \in DOMAIN recs}

\* min(scores), max(scores)
MinScore(recs, score_key) ==
    CHOOSE s \in {recs[i][score_key] : i \in DOMAIN recs} :
        \A i \in DOMAIN recs : RLe(s, recs[i][score_key])
MaxScore(recs, score_key) ==
    CHOOSE s \in {recs[i][score_key] : i \in DOMAIN recs} :
        \A i \in DOMAIN recs : RLe(recs[i][score_key], s)

\* the record that a later write of the same key leaves in the dict
LastWith(recs, movie_id) ==
    recs[CHOOSE i \in DOMAIN recs : recs[i].movieId = movie_id
            /\ \A j \in DOMAIN recs : recs[j].movieId = movie_id => j <= i]

\* variant: equal scores normalized to the midpoint
normalize_scores_EqualHalf(recs, score_key) ==
    IF recs = <<>> THEN <<>>
    ELSE LET min_score == MinScore(recs, score_key)
             max_score == MaxScore(recs, score_key)
         IN IF max_score = min_score
            THEN [m \in MovieIdsOf(recs) |-> Rat(1, 2)]
            ELSE [m \in MovieIdsOf(recs) |->
                    RDiv(RSub(LastWith(recs, m)[score_key], min_score),
                         RSub(max_score, min_score))]

\* variant: scores scaled by the spread without subtracting the minimum
normalize_scores_NoShift(recs, score_key) ==
    IF recs = <<>> THEN <<>>
    ELSE LET min_score == MinScore(recs, score_key)
             max_score == MaxScore(recs, score_key)
         IN IF max_score = min_score
            THEN [m \in MovieIdsOf(recs) |-> RInt(1)]
            ELSE [m \in MovieIdsOf(recs) |->
                    RDiv(LastWith(recs, m)[score_key],
                         RSub(max_score, min_score))]

\* variant: the first record's score taken for the minimum
normalize_scores_FirstAsMin(recs, score_key) ==
    IF recs = <<>> THEN <<>>
    ELSE LET min_score == recs[1][score_key]
             max_score == MaxScore(recs, score_key)
         IN IF max_score = min_score
            THEN [m \in MovieIdsOf(recs) |-> RInt(1)]
            ELSE [m \in MovieIdsOf(recs) |->
                    RDiv(RSub(LastWith(recs, m)[score_key], min_score),
                         RSub(max_score, min_score))]

normalize_scores(recs, score_key) ==
    IF recs = <<>> THEN <<>>
    ELSE LET min_score == MinScore(recs, score_key)
             max_score == MaxScore(recs, score_key)
         IN IF max_score = min_score
            THEN [m \in MovieIdsOf(recs) |-> RInt(1)]
            ELSE [m \in MovieIdsOf(recs) |->
                    RDiv(RSub(LastWith(recs, m)[score_key], min_score),
                         RSub(max_score, min_score))]

-----------------------------------------------------------------------------
(* ranker.py: Ranker.merge_and_rank *)

\* a weight in thousandths as a number
Weight(w) == Rat(w, 1000)

\* variant: a tolerance of 0.2
WeightsAccepted_Loose(w) == Abs(w[1] + w[2] + w[3] - 1000) < 200

\* assert abs(sum(weights) - 1.0) < 0.01
WeightsAccepted(w) == Abs(w[1] + w[2] + w[3] - 1000) < 10

\* all_movie_ids: the union of the keys of the three normalized dicts
AllMovieIds(cn, tn, sn) == DOMAIN cn \cup DOMAIN tn \cup DOMAIN sn

\* variant: the content term multiplied by the collaborative weight
CombinedScore_ContentByFirstWeight(movie_id, cn, tn, sn, w) ==
    LET s0 == RInt(0)
        s1 == IF movie_id \in DOMAIN cn
              THEN RAdd(s0, RMul(cn[movie_id], Weight(w[1])))
              ELSE s0
        s2 == IF movie_id \in DOMAIN tn
              THEN RAdd(s1, RMul(tn[movie_id], Weight(w[1])))
              ELSE s1
        s3 == IF movie_id \in DOMAIN sn
              THEN RAdd(s2, RMul(sn[movie_id], Weight(w[3])))
              ELSE s2
    IN s3

\* the score accumulated for one movie_id in the loop body
CombinedScore(movie_id, cn, tn, sn, w) ==
    LET s0 == RInt(0)
        s1 == IF movie_id \in DOMAIN cn
              THEN RAdd(s0, RMul(cn[movie_id], Weight(w[1])))
              ELSE s0
        s2 == IF movie_id \in DOMAIN tn
              THEN RAdd(s1, RMul(tn[movie_id], Weight(w[2])))
              ELSE s1
        s3 == IF movie_id \in DOMAIN sn
              THEN RAdd(s2, RMul(sn[movie_id], Weight(w[3])))
              ELSE s2
    IN s3

\* variant: the lists scanned in the opposite order
MetadataScan_StatsFirst(collab, content, stats) == stats \o content \o collab

\* for rec in collab_recs + content_recs + stats_recs: the first rec with
\* rec["movieId"] == movie_id
MetadataScan(collab, content, stats) == collab \o content \o stats

FirstWith(recs, movie_id) ==
    recs[CHOOSE i \in DOMAIN recs : recs[i].movieId = movie_id
            /\ \A j \in DOMAIN recs : recs[j].movieId = movie_id => i <= j]

MovieDetails(movie_id, score, collab, content, stats) ==
    LET rec == FirstWith(MetadataScan(collab, content, stats), movie_id)
    IN [movieId |-> movie_id, tmdbId |-> rec.tmdbId, title |-> rec.title,
        genres |-> rec.genres, combined_score |-> score,
        source |-> "hybrid_weighted"]

\* the entries of movie_details once the loop has run, by movie_id
MergeDetails(collab, content, stats, w) ==
    LET cn == normalize_scores(collab, "predicted_rating")
        tn == normalize_scores(content, "score")
        sn == normalize_scores(stats, "weighted_rating")
    IN [movie_id \in AllMovieIds(cn, tn, sn) |->
            MovieDetails(movie_id, CombinedScore(movie_id, cn, tn, sn, w),
                         collab, content, stats)]

\* sorted(movie_details.values(), ...) when the loop visited all_movie_ids in
\* the given order: the dict yields its values in insertion order
RankedInOrder(movie_details, order) ==
    SortDesc([i \in 1..Len(order) |-> movie_details[order[i]]],
             "combined_score")

\* The body of merge_and_rank after the assert.  order is the order in which
\* "for movie_id in all_movie_ids" visits the set: Python leaves the iteration
\* order of a set unspecified, and movie_details keeps insertion order.
merge_and_rank(collab, content, stats, w, order) ==
    RankedInOrder(MergeDetails(collab, content, stats, w), order)

MergeOrders(collab, content, stats) ==
    Orders(AllMovieIds(normalize_scores(collab, "predicted_rating"),
                       normalize_scores(content, "score"),
                       normalize_scores(stats, "weighted_rating")))

-----------------------------------------------------------------------------
(* Arguments of one merge_and_rank call *)

MergeIds == {1, 2, 3}
RawScores == {1, 2, 4}
WeightChoices ==
    { <<500, 300, 200>>,      \* the default
      <<500, 200, 200>>,      \* sums to 0.9
      <<500, 300, 205>>,      \* sums to 1.005: inside the tolerance
      <<1500, -500, 0>> }     \* sums to 1.0 with a negative weight

Chars(src) ==
    CASE src = "collaborative" -> <<"A">>
      [] src = "content" -> <<"B">>
      [] OTHER -> <<"A", "|", "B">>

CollabRec(m, s) ==
    [movieId |-> m, tmdbId |-> 100 + m, title |-> "title-collab",
     genres |-> Chars("collaborative"), predicted_rating |-> RInt(s),
     source |-> "collaborative_svd"]
ContentRec(m, s) ==
    [movieId |-> m, tmdbId |-> 200 + m, title |-> "title-content",
     genres |-> Chars("content"), similarity_score |-> RInt(s),
     score |-> RInt(s), count |-> 1, source |-> "content-similarity"]
StatsRec(m, s) ==
    [movieId |-> m, tmdbId |-> 300 + m, title |-> "title-stats",
     genres |-> Chars("statistical"), weighted_rating |-> RInt(s),
     source |-> "statistical_bayesian"]

\* lists of n (movieId, score) pairs, no movieId twice
PairLists(n) ==
    {p \in [1..n -> MergeIds \X RawScores] :
        \A i, j \in 1..n : i # j => p[i][1] # p[j][1]}
\* predict_for_user and get_trending return their list sorted descending
SortedPairLists(n) ==
    {p \in PairLists(n) : \A i \in 1..n : i < n => p[i][2] >= p[i + 1][2]}

CollabLists(n) ==
    {[i \in 1..n |-> CollabRec(p[i][1], p[i][2])] : p \in SortedPairLists(n)}
ContentLists(n) ==
    {[i \in 1..n |-> ContentRec(p[i][1], p[i][2])] : p \in PairLists(n)}
StatsLists(n) ==
    {[i \in 1..n |-> StatsRec(p[i][1], p[i][2])] : p \in SortedPairLists(n)}

SysIdle ==
    /\ users = <<>>
    /\ ratings = <<>>
    /\ global_mean = None
    /\ weights = <<500, 300, 200>>
    /\ down = {}
    /\ request = [op |-> "none"]
    /\ resp = [status |-> 0]
    /\ invoked = <<>>
    /\ classified = FALSE

MergeIdle ==
    /\ collab_recs = <<>>
    /\ content_recs = <<>>
    /\ stats_recs = <<>>
    /\ mr_weights = None
    /\ mr_pc = "idle"
    /\ normalized = None
    /\ mr_norm = None
    /\ ranked = None

RerankIdle ==
    /\ recommendations = <<>>
    /\ diversity_factor = 0
    /\ remaining = <<>>
    /\ result = <<>>
    /\ seen_genres = {}
    /\ rr_pc = "start"

\* no request is inside calculate_global_mean
MeanIdle ==
    /\ gm_calls = [h \in 1..MaxHandlers |->
                    [pc |-> "idle", result |-> None, returned |-> None]]
    /\ loop_owner = 0
    /\ gm_queries = 0
    /\ db_avg = None

InitMerge ==
    /\ SysIdle
    /\ RerankIdle
    /\ MeanIdle
    /\ \E a, b, c \in 0..MaxRecs :
        /\ a + b + c <= MaxRecs
        /\ collab_recs \in CollabLists(a)
        /\ content_recs \in ContentLists(b)
        /\ stats_recs \in StatsLists(c)
    /\ mr_weights = None
    /\ mr_pc = "idle"
    /\ normalized = None
    /\ mr_norm = None
    /\ ranked = None

ScoreKey(src) ==
    CASE src = "collaborative" -> "predicted_rating"
      [] src = "content" -> "score"
      [] OTHER -> "weighted_rating"

\* a call normalize_scores(recs, score_key) on one of the lists
Normalize ==
    /\ mr_pc = "idle"
    /\ \E src \in {"collaborative", "content", "statistical"} :
        LET recs == CASE src = "collaborative" -> collab_recs
                      [] src = "content" -> content_recs
                      [] OTHER -> stats_recs
        IN normalized' = [recs |-> recs, score_key |-> ScoreKey(src),
                          out |-> normalize_scores(recs, ScoreKey(src))]
    /\ mr_pc' = "normalized"
    /\ UNCHANGED <<collab_recs, content_recs, stats_recs, mr_weights,
                   mr_norm, ranked>>
    /\ UNCHANGED <<sysVars, rrVars, gmVars>>

\* a call merge_and_rank(collab_recs, content_recs, stats_recs, w) that
\* passes the assert
MergeAccepted ==
    /\ mr_pc = "idle"
    /\ \E w \in WeightChoices :
        /\ WeightsAccepted(w)
        /\ mr_weights' = w
        /\ \E order \in MergeOrders(collab_recs, content_recs, stats_recs) :
            ranked' = merge_and_rank(collab_recs, content_recs, stats_recs,
                                     w, order)
    /\ mr_norm' = <<normalize_scores(collab_recs, "predicted_rating"),
                    normalize_scores(content_recs, "score"),
                    normalize_scores(stats_recs, "weighted_rating")>>
    /\ mr_pc' = "merged"
    /\ UNCHANGED <<collab_recs, content_recs, stats_recs, normalized>>
    /\ UNCHANGED <<sysVars, rrVars, gmVars>>

\* a call whose weights fail the assert: AssertionError, nothing is returned
MergeRejected ==
    /\ mr_pc = "idle"
    /\ \E w \in WeightChoices :
        /\ ~WeightsAccepted(w)
        /\ mr_weights' = w
    /\ mr_pc' = "rejected"
    /\ UNCHANGED <<collab_recs, content_recs, stats_recs, normalized,
                   mr_norm, ranked>>
    /\ UNCHANGED <<sysVars, rrVars, gmVars>>

NextMerge == Normalize \/ MergeAccepted \/ MergeRejected

SpecMerge == InitMerge /\ [][NextMerge]_vars

-----------------------------------------------------------------------------
(* Properties of merge_and_rank and normalize_scores, under SpecMerge *)

Merged == mr_pc = "merged"
SourceLists == <<collab_recs, content_recs, stats_recs>>
SourceIds(k) == MovieIdsOf(SourceLists[k])
UnionIds == SourceIds(1) \cup SourceIds(2) \cup SourceIds(3)
RankedIds == {ranked[i].movieId : i \in DOMAIN ranked}

\* what source k adds to the score of movie m: its normalized score times its
\* weight when it contains m, and 0 when it does not
Contribution(k, m) ==
    IF m \in SourceIds(k)
    THEN RMul(mr_norm[k][m], Rat(mr_weights[k], 1000))
    ELSE RInt(0)

ExpectedScore(m) ==
    RAdd(RAdd(Contribution(1, m), Contribution(2, m)), Contribution(3, m))

\* C4: merge_and_rank returns exactly one entry per movieId of the union of
\* the three source lists, and the entry's combined_score is the sum over the
\* sources containing the movieId of normalized score times weight.
C4_UnionAndWeightedSum ==
    Merged =>
        /\ RankedIds = UnionIds
        /\ Len(ranked) = Cardinality(UnionIds)
        /\ \A i \in DOMAIN ranked :
            ranked[i].combined_score = ExpectedScore(ranked[i].movieId)

C4_Witness ==
    /\ Merged
    /\ \E m, n \in UnionIds :
        /\ m # n
        /\ Cardinality({k \in 1..3 : m \in SourceIds(k)}) = 2
        /\ Cardinality({k \in 1..3 : n \in SourceIds(k)}) = 1
        /\ \E i \in DOMAIN ranked :
            ranked[i].movieId = n /\ ranked[i].combined_score # RInt(0)

\* C5: the returned list is sorted descending by combined_score: each entry's
\* score is >= the score of the entry after it.
C5_SortedDescending ==
    Merged =>
        \A i \in DOMAIN ranked :
            i < Len(ranked) =>
                RLe(ranked[i + 1].combined_score, ranked[i].combined_score)

C5_Witness ==
    /\ Merged
    /\ Len(ranked) = 3
    /\ RLt(ranked[2].combined_score, ranked[1].combined_score)
    /\ RLt(ranked[3].combined_score, ranked[2].combined_score)

\* the record whose metadata the priority collaborative > content >
\* statistical selects for movie m
PriorityRecord(m) ==
    LET k == CHOOSE j \in 1..3 :
                m \in SourceIds(j) /\ \A h \in 1..3 : m \in SourceIds(h) => j <= h
        recs == SourceLists[k]
        first == CHOOSE i \in DOMAIN recs :
                    recs[i].movieId = m
                    /\ \A j \in DOMAIN recs : recs[j].movieId = m => i <= j
    IN recs[first]

\* C6: title, genres and tmdbId of every output entry come from the first
\* record with its movieId in the collaborative list, else the content list,
\* else the statistical list.
C6_MetadataPriority ==
    Merged =>
        \A i \in DOMAIN ranked :
            LET src == PriorityRecord(ranked[i].movieId)
            IN /\ ranked[i].title = src.title
               /\ ranked[i].genres = src.genres
               /\ ranked[i].tmdbId = src.tmdbId

C6_Witness ==
    /\ Merged
    /\ \E i, j \in DOMAIN ranked :
        /\ ranked[i].movieId \in SourceIds(1)
        /\ ranked[i].title = "title-collab"
        /\ ranked[j].movieId \in (SourceIds(2) \cap SourceIds(3)) \ SourceIds(1)
        /\ ranked[j].title = "title-content"

NormRaw(i) == normalized.recs[i][normalized.score_key]
NormOut(i) == normalized.out[normalized.recs[i].movieId]
NormAllEqual == \A i, j \in DOMAIN normalized.recs : NormRaw(i) = NormRaw(j)

\* C7: normalize_scores maps every score of a non-empty list into [0,1], the
\* minimum to 0 and the maximum to 1 when they differ, every score to exactly
\* 1 when all are equal, and the empty list to the empty map.
C7_NormalizedRange ==
    mr_pc = "normalized" =>
        /\ DOMAIN normalized.out = MovieIdsOf(normalized.recs)
        /\ normalized.recs = <<>> => normalized.out = <<>>
        /\ \A i \in DOMAIN normalized.recs :
            /\ RLe(RInt(0), NormOut(i)) /\ RLe(NormOut(i), RInt(1))
            /\ NormAllEqual => NormOut(i) = RInt(1)
            /\ ~NormAllEqual =>
                /\ (\A j \in DOMAIN normalized.recs : RLe(NormRaw(i), NormRaw(j)))
                        => NormOut(i) = RInt(0)
                /\ (\A j \in DOMAIN normalized.recs : RLe(NormRaw(j), NormRaw(i)))
                        => NormOut(i) = RInt(1)

C7_Witness ==
    /\ mr_pc = "normalized"
    /\ Len(normalized.recs) = 3
    /\ \E i, j, k \in DOMAIN normalized.recs :
        /\ NormOut(i) = RInt(0)
        /\ NormOut(j) = Rat(1, 3)
        /\ NormOut(k) = RInt(1)

InUnitInterval(x) == RLe(RInt(0), x) /\ RLe(x, RInt(1))
WeightsSumToOne == mr_weights[1] + mr_weights[2] + mr_weights[3] = 1000
WeightsNonNegative == \A k \in 1..3 : mr_weights[k] >= 0

\* C8 as stated: for every accepted weight triple summing to 1.0, every
\* combined_score of the output lies in [0,1].
C8_AsStated ==
    (Merged /\ WeightsSumToOne) =>
        \A i \in DOMAIN ranked : InUnitInterval(ranked[i].combined_score)

\* C8 amended: for every triple of non-negative weights summing to 1.0,
\* every combined_score of the output lies in [0,1].
C8_ConvexBound ==
    (Merged /\ WeightsSumToOne /\ WeightsNonNegative) =>
        \A i \in DOMAIN ranked : InUnitInterval(ranked[i].combined_score)

C8_Witness ==
    /\ Merged
    /\ WeightsSumToOne /\ WeightsNonNegative
    /\ Len(ranked) = 1
    /\ ranked[1].combined_score = RInt(1)
    /\ ranked[1].movieId \in SourceIds(1) \cap SourceIds(2) \cap SourceIds(3)

-----------------------------------------------------------------------------
(* ranker.py: Ranker.rerank_with_diversity *)

\* Python's s.split("|") on a string given as its sequence of characters:
\* always at least one token, so "".split("|") is [""]
RECURSIVE SplitFrom(_, _, _)
SplitFrom(s, token, tokens) ==
    IF s = <<>> THEN Append(tokens, token)
    ELSE IF Head(s) = "|"
         THEN SplitFrom(Tail(s), <<>>, Append(tokens, token))
         ELSE SplitFrom(Tail(s), Append(token, Head(s)), tokens)

Split(s) == SplitFrom(s, <<>>, <<>>)

\* set(rec["genres"].split("|"))
GenreSet(rec) == Range(Split(rec.genres))

\* rec.get("combined_score", 0)
BaseScore(rec) ==
    IF "combined_score" \in DOMAIN rec THEN rec.combined_score ELSE RInt(0)

\* the score of one candidate inside the for loop; factor is in tenths
AdjustedScore(rec, seen, factor) ==
    LET genres == GenreSet(rec)
        new_genres == genres \ seen
    IN IF new_genres # {}
       THEN RAdd(BaseScore(rec),
                 Rat(factor * Cardinality(new_genres),
                     10 * Cardinality(genres)))
       ELSE BaseScore(rec)

\* the for loop: best_score = -1, best_idx = 0, updated on a strictly greater
\* score.  Indices are Python's (0-based); st is <<best_score, best_idx>>.
RECURSIVE BestFrom(_, _, _, _, _)
BestFrom(rem, seen, factor, i, st) ==
    IF i >= Len(rem) THEN st
    ELSE LET score == AdjustedScore(rem[i + 1], seen, factor)
         IN BestFrom(rem, seen, factor, i + 1,
                     IF RLt(st[1], score) THEN <<score, i>> ELSE st)

BestIdx(rem, seen, factor) == BestFrom(rem, seen, factor, 0, <<RInt(-1), 0>>)[2]

\* variant: pop(0) whatever best_idx is
Pop_Head(rem, best_idx) == Tail(rem)

\* remaining.pop(best_idx): the list that is left (best_idx is 0-based)
Pop(rem, best_idx) ==
    SubSeq(rem, 1, best_idx) \o SubSeq(rem, best_idx + 2, Len(rem))

\* remaining = recommendations.copy(): popping from remaining leaves the
\* caller's list as it was
CallerListAfterPop(recs, best_idx) == recs

RerankGenres == { <<>>, <<"A">>, <<"A", "|", "B">> }
RerankScores == { RInt(-2), Rat(1, 2) }
DiversityFactors == {0, 3, 10}

\* the candidates a caller may pass: merge output entries, and source
\* records, which carry no combined_score
RerankRecs(m) ==
    {[movieId |-> m, tmdbId |-> None, title |-> "t", genres |-> g,
      combined_score |-> s, source |-> "hybrid_weighted"] :
        g \in RerankGenres, s \in RerankScores}
    \cup {[movieId |-> m, tmdbId |-> None, title |-> "t", genres |-> g,
           predicted_rating |-> RInt(4), source |-> "collaborative_svd"] :
            g \in RerankGenres}

\* position i carries movieId 1 or 2, so a list of three repeats a movieId
RerankId(i) == ((i - 1) % 2) + 1

InitRerank ==
    /\ SysIdle
    /\ MergeIdle
    /\ MeanIdle
    /\ \E n \in 0..MaxRerank :
        recommendations \in
            {r \in [1..n -> UNION {RerankRecs(m) : m \in 1..2}] :
                \A i \in 1..n : r[i].movieId = RerankId(i)}
    /\ diversity_factor \in DiversityFactors
    /\ remaining = <<>>
    /\ result = <<>>
    /\ seen_genres = {}
    /\ rr_pc = "start"

\* lines 123-128: the early return for an empty list, else the locals
RerankEnter ==
    /\ rr_pc = "start"
    /\ IF recommendations = <<>>
       THEN /\ rr_pc' = "done"
            /\ UNCHANGED <<remaining, result, seen_genres>>
       ELSE /\ rr_pc' = "loop"
            /\ result' = <<>>
            /\ seen_genres' = {}
            /\ remaining' = recommendations
    /\ UNCHANGED <<recommendations, diversity_factor>>
    /\ UNCHANGED <<sysVars, mrVars, gmVars>>

\* one iteration of "while remaining"
RerankIterate ==
    /\ rr_pc = "loop"
    /\ remaining # <<>>
    /\ LET best_idx == BestIdx(remaining, seen_genres, diversity_factor)
           chosen == remaining[best_idx + 1]
       IN /\ remaining' = Pop(remaining, best_idx)
          /\ result' = Append(result, chosen)
          /\ seen_genres' = seen_genres \cup GenreSet(chosen)
          /\ recommendations' = CallerListAfterPop(recommendations, best_idx)
    /\ UNCHANGED <<diversity_factor, rr_pc>>
    /\ UNCHANGED <<sysVars, mrVars, gmVars>>

\* the loop condition fails: return result
RerankReturn ==
    /\ rr_pc = "loop"
    /\ remaining = <<>>
    /\ rr_pc' = "done"
    /\ UNCHANGED <<recommendations, diversity_factor, remaining, result,
                   seen_genres>>
    /\ UNCHANGED <<sysVars, mrVars, gmVars>>

NextRerank == RerankEnter \/ RerankIterate \/ RerankReturn

SpecRerank == InitRerank /\ [][NextRerank]_vars

Count(s, x) == Cardinality({i \in DOMAIN s : s[i] = x})
CountId(s, m) == Cardinality({i \in DOMAIN s : s[i].movieId = m})

\* C10: rerank_with_diversity returns a permutation of its input: the same
\* length, the same multiset of records and so of movieIds; the loop
\* terminates (pop always gets a valid index, and every iteration shortens
\* remaining by one); the caller's list is never modified.
C10_Permutation ==
    /\ [](rr_pc = "done" =>
            /\ Len(result) = Len(recommendations)
            /\ \A m \in 1..2 : CountId(result, m) = CountId(recommendations, m)
            /\ \A x \in Range(recommendations) \cup Range(result) :
                Count(result, x) = Count(recommendations, x))
    /\ [](rr_pc = "loop" /\ remaining # <<>> =>
            BestIdx(remaining, seen_genres, diversity_factor)
                \in 0..(Len(remaining) - 1))
    /\ [][rr_pc = "loop" =>
            (Len(remaining') = Len(remaining) - 1 \/ rr_pc' = "done")]_vars
    /\ [][recommendations' = recommendations]_vars

C10_Witness ==
    /\ rr_pc = "done"
    /\ Len(result) = 3
    /\ result[1] = recommendations[3]
    /\ result[1].movieId = result[3].movieId
    /\ result[1] # result[3]
    /\ diversity_factor = 3

-----------------------------------------------------------------------------
(* The data the engines read: the movies table, the trained SVD model and  *)
(* the vector index.  None of it changes while the server runs.            *)

Movies ==
    <<[movieId |-> 1, tmdbId |-> 11, title |-> "M1", genres |-> <<"A">>,
       avg_rating |-> Rat(40, 10), vote_count |-> 100],
      [movieId |-> 2, tmdbId |-> 12, title |-> "M2",
       genres |-> <<"A", "|", "B">>,
       avg_rating |-> Rat(45, 10), vote_count |-> 60],
      [movieId |-> 3, tmdbId |-> 13, title |-> "M3", genres |-> <<"B">>,
       avg_rating |-> Rat(50, 10), vote_count |-> 10],
      [movieId |-> 4, tmdbId |-> 14, title |-> "M4", genres |-> <<>>,
       avg_rating |-> Rat(30, 10), vote_count |-> 50]>>

\* self.model.predict(user_id, movie_id).est
SvdEstimate(user_id, movie_id) ==
    LET est == << <<35, 48, 30, 41>>, <<44, 31, 50, 20>> >>
    IN Rat(est[user_id][movie_id], 10)

\* 1 - distance between two movies of the collection
Similarity(a, b) ==
    LET s == << <<100, 80, 30, 50>>, <<80, 100, 60, 20>>,
                <<30, 60, 100, 70>>, <<50, 20, 70, 100>> >>
    IN Rat(s[a][b], 100)

-----------------------------------------------------------------------------
(* database.py: the tables, and the queries the handlers run *)

\* db.query(Rating).filter(Rating.userId == user_id): the movieIds
RatedBy(user_id) == {k[2] : k \in {r \in DOMAIN ratings : r[1] = user_id}}

\* ... .count()
RatingCount(user_id) == Cardinality(RatedBy(user_id))

\* the elements of a finite set of integers, ascending
RECURSIVE Ascending(_)
Ascending(S) ==
    IF S = {} THEN <<>>
    ELSE LET least == CHOOSE x \in S : \A y \in S : x <= y
         IN <<least>> \o Ascending(S \ {least})

\* the records of recs whose movieId is in keep, in order
RECURSIVE Filter(_, _)
Filter(recs, keep) ==
    IF recs = <<>> THEN <<>>
    ELSE (IF Head(recs).movieId \in keep THEN <<Head(recs)>> ELSE <<>>)
            \o Filter(Tail(recs), keep)

WithField(rec, field, value) ==
    [f \in DOMAIN rec \cup {field} |-> IF f = field THEN value ELSE rec[f]]

-----------------------------------------------------------------------------
(* engines/collaborative.py *)

predict_for_user(user_id, top_n) ==
    LET unrated == Filter(Movies, {m \in 1..Len(Movies) : m \notin RatedBy(user_id)})
        predictions ==
            [i \in DOMAIN unrated |->
                [movieId |-> unrated[i].movieId, tmdbId |-> unrated[i].tmdbId,
                 title |-> unrated[i].title, genres |-> unrated[i].genres,
                 predicted_rating |-> SvdEstimate(user_id, unrated[i].movieId),
                 source |-> "collaborative_svd"]]
    IN Take(SortDesc(predictions, "predicted_rating"), top_n)

FiveStars == 5

\* variant: the lowest prediction of the list taken for the hero
collaborative_hero_Lowest(user_id) ==
    LET recommendations_ == predict_for_user(user_id, Len(Movies))
        last == Len(recommendations_)
    IN IF recommendations_ # <<>>
       THEN WithField(recommendations_[last], "confidence",
                      RMin(RDiv(recommendations_[last].predicted_rating,
                                RInt(FiveStars)), RInt(1)))
       ELSE None

collaborative_hero(user_id) ==
    LET recommendations_ == predict_for_user(user_id, 1)
    IN IF recommendations_ # <<>>
       THEN WithField(recommendations_[1], "confidence",
                      RMin(RDiv(recommendations_[1].predicted_rating,
                                RInt(FiveStars)), RInt(1)))
       ELSE None

-----------------------------------------------------------------------------
(* engines/statistical.py *)

MinVotes == 50
DefaultMean == 3

RECURSIVE SumAvgRating(_)
SumAvgRating(recs) ==
    IF recs = <<>> THEN RInt(0)
    ELSE RAdd(Head(recs).avg_rating, SumAvgRating(Tail(recs)))

\* calculate_global_mean: the cached value, else avg(Movie.avg_rating) or 3.0
calculate_global_mean(cached) ==
    IF cached = None
    THEN LET avg == IF Movies = <<>> THEN None
                    ELSE RDiv(SumAvgRating(Movies), RInt(Len(Movies)))
         IN IF avg = None \/ avg = RInt(0) THEN RInt(DefaultMean) ELSE avg
    ELSE cached

\* WR = (v / (v + m)) * R + (m / (v + m)) * C
weighted_rating(avg_rating, vote_count, C, m) ==
    RAdd(RMul(Rat(vote_count, vote_count + m), avg_rating),
         RMul(Rat(m, vote_count + m), C))

get_trending(cached, top_n) ==
    LET C == calculate_global_mean(cached)
        movies == Filter(Movies, {i \in 1..Len(Movies) : Movies[i].vote_count >= MinVotes})
        results ==
            [i \in DOMAIN movies |->
                [movieId |-> movies[i].movieId, tmdbId |-> movies[i].tmdbId,
                 title |-> movies[i].title, genres |-> movies[i].genres,
                 avg_rating |-> movies[i].avg_rating,
                 vote_count |-> movies[i].vote_count,
                 weighted_rating |->
                    weighted_rating(movies[i].avg_rating,
                                    movies[i].vote_count, C, MinVotes),
                 source |-> "statistical_bayesian"]]
    IN Take(SortDesc(results, "weighted_rating"), top_n)

statistical_hero(cached) ==
    LET trending == get_trending(cached, 1)
    IN IF trending # <<>>
       THEN WithField(trending[1], "confidence",
                      RMin(RDiv(trending[1].weighted_rating, RInt(FiveStars)),
                           RInt(1)))
       ELSE None

-----------------------------------------------------------------------------
(* engines/content.py *)

LikedThreshold == 40
NeighbourCount == 10

\* find_similar_to_movie: the nearest neighbours in the collection, nearest
\* first, without the movie itself
find_similar_to_movie(movie_id, top_n) ==
    IF movie_id \notin 1..Len(Movies) THEN <<>>
    ELSE LET hits == [i \in DOMAIN Movies |->
                        [movieId |-> Movies[i].movieId,
                         tmdbId |-> Movies[i].tmdbId,
                         title |-> Movies[i].title,
                         genres |-> Movies[i].genres,
                         similarity_score |-> Similarity(movie_id, i),
                         source |-> "content-similarity"]]
             nearest == Take(SortDesc(hits, "similarity_score"), top_n + 1)
         IN Take(Filter(nearest, (1..Len(Movies)) \ {movie_id}), top_n)

\* the dict similar_movies, as the sequence of its values in insertion order
RECURSIVE Aggregate(_, _)
Aggregate(similar, acc) ==
    IF similar = <<>> THEN acc
    ELSE LET movie == Head(similar)
             at == {j \in DOMAIN acc : acc[j].movieId = movie.movieId}
         IN IF at # {}
            THEN LET j == CHOOSE k \in at : TRUE
                 IN Aggregate(Tail(similar),
                        [acc EXCEPT ![j].score = RAdd(@, movie.similarity_score),
                                    ![j].count = @ + 1])
            ELSE Aggregate(Tail(similar),
                    Append(acc, WithField(WithField(movie, "score",
                                    movie.similarity_score), "count", 1)))

RECURSIVE SimilarToAll(_)
SimilarToAll(liked) ==
    IF liked = <<>> THEN <<>>
    ELSE find_similar_to_movie(Head(liked), NeighbourCount)
            \o SimilarToAll(Tail(liked))

find_similar_to_user_preferences(user_id, top_n) ==
    LET liked_movies ==
            Ascending({m \in RatedBy(user_id) :
                        ratings[<<user_id, m>>] >= LikedThreshold})
    IN IF liked_movies = <<>> THEN <<>>
       ELSE Take(SortDesc(Aggregate(SimilarToAll(liked_movies), <<>>),
                          "count,score"), top_n)

content_hero(user_id) ==
    LET recommendations_ == find_similar_to_user_preferences(user_id, 1)
    IN IF recommendations_ # <<>>
       THEN WithField(recommendations_[1], "confidence",
                      recommendations_[1].similarity_score)
       ELSE None

-----------------------------------------------------------------------------
(* orchestrator.py: RecommendationOrchestrator *)

ColdStartThreshold == 5

is_new_user(user_id) == RatingCount(user_id) < ColdStartThreshold

Section(title, description, movies, source) ==
    [title |-> title, description |-> description, movies |-> movies,
     source |-> source]

\* Each handler gives the response, the engine calls it made, in order, and
\* the value of the statistical engine's cache afterwards.
Outcome(response, calls, mean) ==
    [resp |-> response, invoked |-> calls, global_mean |-> mean]

Result(strategy, is_new, hero, sections) ==
    [status |-> 200, strategy |-> strategy, is_new_user |-> is_new,
     hero |-> hero, sections |-> sections]

\* an exception no handler catches: the request fails
ServerError(error) == [status |-> 500, error |-> error]

\* variant: no source call ever raises
Raises_Never(source) == FALSE

\* a call of the source raises: the model, the vector collection or the
\* database it reads is unavailable
Raises(source) == source \in down

\* the exception of a source leaves the handler uncaught, after the calls made
Failed(calls, cached) == Outcome(ServerError("SourceError"), calls, cached)

handle_new_user(cached, top_n) ==
    IF Raises("statistical") THEN Failed(<<"statistical">>, cached) ELSE
    Outcome(Result("statistical", TRUE, statistical_hero(cached),
                <<Section("Trending & Highly Rated",
                          "Popular movies with excellent ratings",
                          get_trending(cached, top_n), "statistical")>>),
            <<"statistical", "statistical">>,
            calculate_global_mean(cached))

collaborative_only(user_id, cached, top_n) ==
    IF Raises("collaborative") THEN Failed(<<"collaborative">>, cached) ELSE
    Outcome(Result("collaborative", FALSE, collaborative_hero(user_id),
                <<Section("Personalized Picks",
                          "Based on your rating history",
                          predict_for_user(user_id, top_n), "collaborative")>>),
            <<"collaborative", "collaborative">>,
            cached)

content_only(user_id, cached, top_n) ==
    IF Raises("content") THEN Failed(<<"content">>, cached) ELSE
    Outcome(Result("content", FALSE, content_hero(user_id),
                <<Section("Similar to Movies You Loved",
                          "Based on content similarity",
                          find_similar_to_user_preferences(user_id, top_n),
                          "content")>>),
            <<"content", "content">>,
            cached)

statistical_only(cached, top_n) ==
    IF Raises("statistical") THEN Failed(<<"statistical">>, cached) ELSE
    Outcome(Result("statistical", FALSE, statistical_hero(cached),
                <<Section("Top Rated Movies",
                          "Highest quality by statistical significance",
                          get_trending(cached, top_n), "statistical")>>),
            <<"statistical", "statistical">>,
            calculate_global_mean(cached))

\* The set of outcomes: one for each order in which merge_and_rank may visit
\* all_movie_ids.  The three engine calls come first; merge_and_rank then
\* checks the weights.
hybrid_recommendations(user_id, cached, top_n, w) ==
    LET collab == predict_for_user(user_id, top_n)
        content == find_similar_to_user_preferences(user_id, top_n)
        stats == get_trending(cached, top_n)
        hero == collaborative_hero(user_id)
        mean == calculate_global_mean(cached)
        movie_details == MergeDetails(collab, content, stats, w)
    IN IF Raises("collaborative")
       THEN {Failed(<<"collaborative">>, cached)}
       ELSE IF Raises("content")
       THEN {Failed(<<"collaborative", "content">>, cached)}
       ELSE IF Raises("statistical")
       THEN {Failed(<<"collaborative", "content", "statistical">>, cached)}
       ELSE IF ~WeightsAccepted(w)
       THEN {Outcome(ServerError("AssertionError"),
                     <<"collaborative", "content", "statistical">>, mean)}
       ELSE {Outcome(
                Result("hybrid", FALSE, hero,
                    <<Section("Personalized for You",
                              "Hybrid recommendations combining all signals",
                              Take(RankedInOrder(movie_details, order),
                                   top_n),
                              "hybrid"),
                      Section("Similar to Your Favorites",
                              "Based on content you enjoyed",
                              Take(content, top_n), "content"),
                      Section("Trending Now", "Popular and highly rated",
                              Take(stats, top_n), "statistical")>>),
                <<"collaborative", "content", "statistical", "collaborative">>,
                mean) : order \in Orders(DOMAIN movie_details)}

\* variant: the requested strategy consulted before the rating count
get_recommendations_StrategyFirst(user_id, strategy, cached, top_n, w) ==
    IF strategy = "collaborative"
    THEN {collaborative_only(user_id, cached, top_n)}
    ELSE IF strategy = "content" THEN {content_only(user_id, cached, top_n)}
    ELSE IF strategy = "statistical" THEN {statistical_only(cached, top_n)}
    ELSE IF is_new_user(user_id) THEN {handle_new_user(cached, top_n)}
    ELSE hybrid_recommendations(user_id, cached, top_n, w)

\* variant: only the string "hybrid" reaches the hybrid result
get_recommendations_StrictHybrid(user_id, strategy, cached, top_n, w) ==
    IF is_new_user(user_id) THEN {handle_new_user(cached, top_n)}
    ELSE IF strategy = "collaborative"
         THEN {collaborative_only(user_id, cached, top_n)}
    ELSE IF strategy = "content" THEN {content_only(user_id, cached, top_n)}
    ELSE IF strategy = "hybrid"
         THEN hybrid_recommendations(user_id, cached, top_n, w)
    ELSE {statistical_only(cached, top_n)}

\* the outcomes the orchestrator may produce for one request
get_recommendations(user_id, strategy, cached, top_n, w) ==
    IF is_new_user(user_id) THEN {handle_new_user(cached, top_n)}
    ELSE IF strategy = "collaborative"
         THEN {collaborative_only(user_id, cached, top_n)}
    ELSE IF strategy = "content" THEN {content_only(user_id, cached, top_n)}
    ELSE IF strategy = "statistical" THEN {statistical_only(cached, top_n)}
    ELSE hybrid_recommendations(user_id, cached, top_n, w)

-----------------------------------------------------------------------------
(* main.py: the request handlers *)

\* what requests name
RequestUserIds == {1, 2}
Strategies == {"hybrid", "collaborative", "content", "statistical", "bogus"}
TopNs == {3}
Low == 20
Liked == 45
RateRequests ==
    {<<u, m, Liked>> : u \in RequestUserIds, m \in {1, MaxMovie}}
        \cup {<<u, 1, Low>> : u \in RequestUserIds}
MovieRating(m, r) == [movieId |-> m, rating |-> r]
OnboardRequests ==
    { <<MovieRating(1, NoRating), MovieRating(2, 0), MovieRating(3, Low)>>,
      [m \in 1..(ColdStartThreshold - 1) |->
            MovieRating(IF m = 1 THEN 2 ELSE MaxMovie + m, Liked)],
      [m \in 1..ColdStartThreshold |-> MovieRating(m, Liked)] }
\* weights=[0.5, 0.3, 0.2] at orchestrator.py:154
DefaultWeights == <<500, 300, 200>>

\* the server starts on the empty tables of init_db()
Init ==
    /\ users = <<>>
    /\ ratings = <<>>
    /\ global_mean = None
    /\ weights = DefaultWeights
    /\ down = {}
    /\ request = [op |-> "none"]
    /\ resp = [status |-> 0]
    /\ invoked = <<>>
    /\ classified = FALSE
    /\ MergeIdle
    /\ RerankIdle
    /\ MeanIdle

\* variant: a userId counts as known once it has a rating row
UserExists_ByRatings(user_id) ==
    user_id \in DOMAIN users \/ \E k \in DOMAIN ratings : k[1] = user_id

\* user = db.query(User).filter(User.userId == user_id).first()
UserExists(user_id) == user_id \in DOMAIN users

\* "if movie_rating.rating:" is false for None and for 0.0
RECURSIVE Rated(_)
Rated(movie_ratings) ==
    IF movie_ratings = <<>> THEN <<>>
    ELSE (IF Head(movie_ratings).rating \notin {NoRating, 0}
          THEN <<Head(movie_ratings)>> ELSE <<>>)
            \o Rated(Tail(movie_ratings))

\* POST /onboard
Onboard ==
    \E request_ \in OnboardRequests :
        LET new_user_id == IF DOMAIN users = {} THEN 1
                           ELSE (CHOOSE u \in DOMAIN users :
                                    \A v \in DOMAIN users : v <= u) + 1
            rows == Rated(request_)
            keys == {<<new_user_id, rows[i].movieId>> : i \in DOMAIN rows}
            rating_count == Len(rows)
            \* the ratings table's primary key is (userId, movieId)
            conflict == Cardinality(keys) < Len(rows)
                        \/ keys \cap DOMAIN ratings # {}
        IN /\ new_user_id \in RequestUserIds
           /\ request' = [op |-> "onboard", ratings |-> request_]
           /\ IF conflict
              THEN /\ resp' = ServerError("IntegrityError")
                   /\ UNCHANGED <<users, ratings>>
              ELSE /\ users' = [u \in DOMAIN users \cup {new_user_id} |->
                                  IF u = new_user_id THEN rating_count
                                  ELSE users[u]]
                   /\ ratings' = [k \in DOMAIN ratings \cup keys |->
                        IF k \in keys
                        THEN (CHOOSE r \in Range(rows) : r.movieId = k[2]).rating
                        ELSE ratings[k]]
                   /\ resp' = [status |-> 200, userId |-> new_user_id,
                               ratings_collected |-> rating_count,
                               is_new_user |-> rating_count < ColdStartThreshold,
                               message |-> "User onboarded successfully"]
           /\ invoked' = <<>>
           /\ classified' = FALSE
           /\ UNCHANGED <<global_mean, weights, down>>
           /\ UNCHANGED <<mrVars, rrVars, gmVars>>

\* variant: rating a movie again removes the stored row
SaveRating_Toggle(rows, key, rating) ==
    IF key \in DOMAIN rows
    THEN [k \in DOMAIN rows \ {key} |-> rows[k]]
    ELSE [k \in DOMAIN rows \cup {key} |-> IF k = key THEN rating ELSE rows[k]]

\* rate_movie's write: the row of (userId, movieId) is overwritten if there
\* is one and added otherwise, then committed
SaveRating(rows, key, rating) ==
    [k \in DOMAIN rows \cup {key} |-> IF k = key THEN rating ELSE rows[k]]

\* POST /rate
Rate ==
    \E request_ \in RateRequests :
        LET user_id == request_[1]
            movie_id == request_[2]
            rating == request_[3]
            key == <<user_id, movie_id>>
        IN /\ request' = [op |-> "rate", user_id |-> user_id,
                          movie_id |-> movie_id, rating |-> rating]
           /\ ratings' = SaveRating(ratings, key, rating)
           /\ resp' = [status |-> 200, userId |-> user_id,
                       movieId |-> movie_id, rating |-> rating,
                       message |-> "Rating saved successfully"]
           /\ invoked' = <<>>
           /\ classified' = FALSE
           /\ UNCHANGED <<users, global_mean, weights, down>>
           /\ UNCHANGED <<mrVars, rrVars, gmVars>>

\* GET /recommendations/{user_id}
Recommend ==
    \E user_id \in RequestUserIds, strategy \in Strategies, top_n \in TopNs :
        /\ request' = [op |-> "recommend", user_id |-> user_id,
                       strategy |-> strategy, top_n |-> top_n]
        /\ IF ~UserExists(user_id)
           THEN /\ resp' = [status |-> 404, detail |-> "User not found"]
                /\ invoked' = <<>>
                /\ classified' = FALSE
                /\ UNCHANGED global_mean
           ELSE \E out \in get_recommendations(user_id, strategy,
                                global_mean, top_n, weights) :
                    /\ resp' = out.resp
                    /\ invoked' = out.invoked
                    /\ classified' = TRUE
                    /\ global_mean' = out.global_mean
        /\ UNCHANGED <<users, ratings, weights, down>>
        /\ UNCHANGED <<mrVars, rrVars, gmVars>>

Next == Onboard \/ Rate \/ Recommend

Spec == Init /\ [][Next]_vars

\* a deployment whose weights literal was edited
HybridWeightChoices == { DefaultWeights, <<500, 200, 200>> }

InitConfigured ==
    /\ users = <<>>
    /\ ratings = <<>>
    /\ global_mean = None
    /\ weights \in HybridWeightChoices
    /\ down = {}
    /\ request = [op |-> "none"]
    /\ resp = [status |-> 0]
    /\ invoked = <<>>
    /\ classified = FALSE
    /\ MergeIdle
    /\ RerankIdle
    /\ MeanIdle

SpecConfigured == InitConfigured /\ [][Next]_vars

-----------------------------------------------------------------------------
(* Properties of the request handlers, under Spec *)

Recommended == request.op = "recommend"
\* the stored ratings of the user the last request names
StoredRatings == Cardinality({k \in DOMAIN ratings : k[1] = request.user_id})
HasRecord == request.user_id \in DOMAIN users
Titles == [i \in DOMAIN resp.sections |-> resp.sections[i].title]
SectionSources == [i \in DOMAIN resp.sections |-> resp.sections[i].source]
InvokedSet == Range(invoked)

\* C1: whatever strategy is requested, a user with fewer than 5 stored
\* ratings gets the cold-start result: strategy "statistical", is_new_user
\* true, the one section "Trending & Highly Rated", and only the statistical
\* source is invoked.
C1_ColdStartOverride ==
    (Recommended /\ HasRecord /\ StoredRatings < 5) =>
        /\ resp.status = 200
        /\ resp.strategy = "statistical"
        /\ resp.is_new_user = TRUE
        /\ Titles = <<"Trending & Highly Rated">>
        /\ InvokedSet = {"statistical"}

C1_Witness ==
    /\ Recommended /\ HasRecord /\ StoredRatings = 2
    /\ request.strategy = "hybrid"
    /\ resp.status = 200
    /\ resp.strategy = "statistical" /\ resp.is_new_user = TRUE

SingleSection(strategy, title, source) ==
    /\ resp.strategy = strategy
    /\ Titles = <<title>>
    /\ SectionSources = <<source>>
    /\ InvokedSet = {source}

\* C2: for a user with at least 5 stored ratings, "collaborative", "content"
\* and "statistical" give one section built from that one source; every other
\* strategy string gives the hybrid result: all three sources invoked, three
\* sections in the order merged-hybrid, content, statistical.  is_new_user is
\* false in all of them.
C2_Routing ==
    (Recommended /\ HasRecord /\ StoredRatings >= 5) =>
        /\ resp.status = 200
        /\ resp.is_new_user = FALSE
        /\ CASE request.strategy = "collaborative" ->
                    SingleSection("collaborative", "Personalized Picks",
                                  "collaborative")
             [] request.strategy = "content" ->
                    SingleSection("content", "Similar to Movies You Loved",
                                  "content")
             [] request.strategy = "statistical" ->
                    SingleSection("statistical", "Top Rated Movies",
                                  "statistical")
             [] OTHER ->
                    /\ resp.strategy = "hybrid"
                    /\ SectionSources = <<"hybrid", "content", "statistical">>
                    /\ Titles = <<"Personalized for You",
                                  "Similar to Your Favorites", "Trending Now">>
                    /\ InvokedSet = {"collaborative", "content", "statistical"}

C2_Witness ==
    /\ Recommended /\ HasRecord /\ StoredRatings >= 5
    /\ request.strategy = "bogus"
    /\ resp.status = 200
    /\ resp.strategy = "hybrid"
    /\ Len(resp.sections) = 3
    /\ resp.sections[1].movies # <<>>

\* C3: a recommendations request for a userId without a user record signals
\* not-found, and neither the classifier nor a candidate source is invoked;
\* a request for a userId with a user record never signals not-found.
C3_NotFound ==
    Recommended =>
        /\ ~HasRecord => (resp.status = 404 /\ ~classified /\ invoked = <<>>)
        /\ HasRecord => resp.status # 404

C3_Witness ==
    /\ Recommended /\ ~HasRecord
    /\ StoredRatings >= 1
    /\ DOMAIN users # {}
    /\ resp.status = 404

-----------------------------------------------------------------------------
(* The weights check, under SpecConfigured *)

WeightsRejected == Abs(weights[1] + weights[2] + weights[3] - 1000) >= 10
\* the last request took the hybrid path
HybridRequested ==
    /\ Recommended /\ HasRecord /\ StoredRatings >= 5
    /\ request.strategy \notin {"collaborative", "content", "statistical"}

-----------------------------------------------------------------------------
(* merge_and_rank on reordered source lists, under SpecMerge *)

\* the lists that hold the records of s in some other order
Perms(s) == {[i \in DOMAIN s |-> s[p[i]]] : p \in Orders(DOMAIN s)}

\* the (movieId, combined_score) pairs of a merge output, in output order
Pairs(r) == [i \in DOMAIN r |-> <<r[i].movieId, r[i].combined_score>>]
ScoreSeq(r) == [i \in DOMAIN r |-> r[i].combined_score]

\* what merge_and_rank may return when the records inside each source list
\* are permuted
Reordered ==
    UNION {{merge_and_rank(c, t, s, mr_weights, o) : o \in MergeOrders(c, t, s)} :
            <<c, t, s>> \in Perms(collab_recs) \X Perms(content_recs)
                                \X Perms(stats_recs)}

\* no source list names a movieId twice
UniqueKeys ==
    \A k \in 1..3 : Cardinality(SourceIds(k)) = Len(SourceLists[k])

HasTie == \E i, j \in DOMAIN ranked :
            i # j /\ ranked[i].combined_score = ranked[j].combined_score

\* C11 as stated: permuting the records inside each source list leaves the
\* sequence of (movieId, combined_score) pairs returned by merge_and_rank
\* unchanged, the relative order of tied entries included.
C11_AsStated ==
    Merged => \A r \in Reordered : Pairs(r) = Pairs(ranked)

\* C11: when no source list names a movieId twice, permuting the records
\* inside each source list leaves every movieId's combined_score and the
\* sequence of scores unchanged; only entries whose combined scores tie may
\* change places.
C11_InvariantUpToTies ==
    (Merged /\ UniqueKeys) =>
        \A r \in Reordered :
            /\ Range(Pairs(r)) = Range(Pairs(ranked))
            /\ ScoreSeq(r) = ScoreSeq(ranked)

C11_Witness ==
    /\ Merged /\ UniqueKeys
    /\ Len(collab_recs) >= 2
    /\ Len(ranked) = 3
    /\ HasTie
    /\ \E r \in Reordered : Pairs(r) # Pairs(ranked)
    /\ \E i \in 1..2 : ranked[i].combined_score # ranked[i + 1].combined_score

-----------------------------------------------------------------------------
(* The hero of a result, under Spec *)

Served == Recommended /\ HasRecord /\ resp.status = 200
FirstSectionMovies == resp.sections[1].movies

\* hero is the first record of list (the hero carries a confidence field on
\* top of the record's own), and is None exactly when list is empty
HeroIsFirstOf(list) ==
    IF list = <<>> THEN resp.hero = None
    ELSE /\ resp.hero # None
         /\ resp.hero.movieId = list[1].movieId
         /\ resp.hero.title = list[1].title

\* C12 as stated: in every routing state the hero is the first candidate of
\* the result's first section (in the hybrid state: rank 1 of the merged
\* ranking) and is None exactly when that section is empty.
C12_AsStated ==
    Served => HeroIsFirstOf(FirstSectionMovies)

\* C12: in the cold-start state and the three single-source states the hero
\* is the first candidate of the result's only section and is None exactly
\* when that section is empty; in the hybrid state the hero is rank 1 of the
\* collaborative source's list, whatever the merged ranking is, and is None
\* exactly when the collaborative list is empty.  No request of an existing
\* user fails because a list is empty.
C12_HeroOfSource ==
    (Recommended /\ HasRecord) =>
        /\ resp.status = 200
        /\ IF resp.strategy = "hybrid"
           THEN HeroIsFirstOf(predict_for_user(request.user_id, request.top_n))
           ELSE HeroIsFirstOf(FirstSectionMovies)

\* a hybrid result whose hero is strictly below rank 1 of the merged ranking
C12_Witness ==
    /\ Served /\ resp.strategy = "hybrid"
    /\ resp.hero # None
    /\ resp.hero.movieId # FirstSectionMovies[1].movieId
    /\ \E i \in DOMAIN FirstSectionMovies :
        /\ FirstSectionMovies[i].movieId = resp.hero.movieId
        /\ RLt(FirstSectionMovies[i].combined_score,
               FirstSectionMovies[1].combined_score)

\* a hybrid result with no hero and a merged ranking that is not empty
C12_NoHeroWitness ==
    /\ Served /\ resp.strategy = "hybrid"
    /\ resp.hero = None
    /\ FirstSectionMovies # <<>>

\* a result whose only section is empty, and no hero
C12_EmptyWitness ==
    /\ Served /\ resp.strategy = "collaborative"
    /\ resp.hero = None
    /\ FirstSectionMovies = <<>>

-----------------------------------------------------------------------------
(* Candidate sources that raise, under SpecFailure *)

Sources == {"collaborative", "content", "statistical"}

\* a deployment in which the sources of down raise whenever they are called
InitFailure ==
    /\ users = <<>>
    /\ ratings = <<>>
    /\ global_mean = None
    /\ weights = DefaultWeights
    /\ down \in SUBSET Sources
    /\ request = [op |-> "none"]
    /\ resp = [status |-> 0]
    /\ invoked = <<>>
    /\ classified = FALSE
    /\ MergeIdle
    /\ RerankIdle
    /\ MeanIdle

SpecFailure == InitFailure /\ [][Next]_vars

\* the calls _hybrid_recommendations makes up to the first source that raises
CallsUntilFailure ==
    IF "collaborative" \in down THEN <<"collaborative">>
    ELSE IF "content" \in down THEN <<"collaborative", "content">>
    ELSE <<"collaborative", "content", "statistical">>

\* C13 as stated: in the hybrid state, when one or two of the three sources
\* raise, the other sources are still invoked and the request returns a
\* result; the request fails only if all three raise.
C13_AsStated ==
    (HybridRequested /\ Cardinality(down) \in {1, 2}) =>
        /\ resp.status = 200
        /\ Sources \ down \subseteq InvokedSet

\* C13: in the hybrid state the sources are called in the order
\* collaborative, content, statistical; the first one that raises ends the
\* request with its error, no source after it is invoked and no result is
\* built from the sources that succeeded.  The request returns a result only
\* if none of the three raises.
C13_FirstFailureAborts ==
    HybridRequested =>
        IF down = {}
        THEN resp.status = 200 /\ resp.strategy = "hybrid"
        ELSE /\ resp = [status |-> 500, error |-> "SourceError"]
             /\ invoked = CallsUntilFailure

C13_Witness ==
    /\ HybridRequested
    /\ down = {"content"}
    /\ resp.status = 500
    /\ invoked = <<"collaborative", "content">>

-----------------------------------------------------------------------------
(* engines/statistical.py: calculate_global_mean under concurrent requests *)

Handlers == 1..MaxHandlers

\* func.avg(Movie.avg_rating): None on an empty table
DbAverages == {None, RInt(0), Rat(33, 8), Rat(7, 2)}

InitMean ==
    /\ SysIdle
    /\ MergeIdle
    /\ RerankIdle
    /\ gm_calls = [h \in Handlers |->
                    [pc |-> "idle", result |-> None, returned |-> None]]
    /\ loop_owner = 0
    /\ gm_queries = 0
    /\ db_avg \in DbAverages

\* variant: handlers run on the threads of a pool and are preempted anywhere
MayStep_Threadpool(h) == TRUE

\* Every handler is an "async def" whose body has no await, and uvicorn.run
\* starts one event loop: a handler on the loop runs to its return before
\* another handler gets a step.
MayStep(h) == loop_owner \in {0, h}

GoTo(h, pc) == [gm_calls EXCEPT ![h].pc = pc]

\* the event loop starts the handler of a request; it reaches the call
MeanEnter(h) ==
    /\ gm_calls[h].pc = "idle"
    /\ MayStep(h)
    /\ loop_owner' = h
    /\ gm_calls' = GoTo(h, "check")
    /\ UNCHANGED <<global_mean, gm_queries, db_avg>>

\* if self.global_mean is None:
MeanCheck(h) ==
    /\ gm_calls[h].pc = "check"
    /\ MayStep(h)
    /\ gm_calls' = GoTo(h, IF global_mean = None THEN "query" ELSE "return")
    /\ UNCHANGED <<global_mean, loop_owner, gm_queries, db_avg>>

\* result = db.query(func.avg(Movie.avg_rating)).scalar()
MeanQuery(h) ==
    /\ gm_calls[h].pc = "query"
    /\ MayStep(h)
    /\ gm_calls' = [gm_calls EXCEPT ![h].pc = "store", ![h].result = db_avg]
    /\ gm_queries' = gm_queries + 1
    /\ UNCHANGED <<global_mean, loop_owner, db_avg>>

\* self.global_mean = result or 3.0
MeanStore(h) ==
    /\ gm_calls[h].pc = "store"
    /\ MayStep(h)
    /\ global_mean' = IF gm_calls[h].result \in {None, RInt(0)}
                      THEN RInt(DefaultMean) ELSE gm_calls[h].result
    /\ gm_calls' = GoTo(h, "return")
    /\ UNCHANGED <<loop_owner, gm_queries, db_avg>>

\* return self.global_mean; the handler then runs to its end
MeanReturn(h) ==
    /\ gm_calls[h].pc = "return"
    /\ MayStep(h)
    /\ gm_calls' = [gm_calls EXCEPT ![h].pc = "done",
                                    ![h].returned = global_mean]
    /\ loop_owner' = 0
    /\ UNCHANGED <<global_mean, gm_queries, db_avg>>

\* the movies table is loaded again (scripts/load_data.py) between requests
MoviesReloaded ==
    /\ loop_owner = 0
    /\ db_avg' \in DbAverages \ {db_avg}
    /\ UNCHANGED <<global_mean, gm_calls, loop_owner, gm_queries>>

MeanUnchanged ==
    UNCHANGED <<users, ratings, weights, down, request, resp, invoked,
                classified, mrVars, rrVars>>

NextMean ==
    /\ \/ \E h \in Handlers : MeanEnter(h)
       \/ \E h \in Handlers : MeanCheck(h)
       \/ \E h \in Handlers : MeanQuery(h)
       \/ \E h \in Handlers : MeanStore(h)
       \/ \E h \in Handlers : MeanReturn(h)
       \/ MoviesReloaded
    /\ MeanUnchanged

SpecMean == InitMean /\ [][NextMean]_vars

\* C14: whatever the order in which concurrent requests reach
\* calculate_global_mean, the database average is computed at most once;
\* once the cache is set it never changes and no call computes the average
\* again, and every finished call has returned the cached value, also when
\* the data changed after the cache was set.
C14_InitializedOnce ==
    /\ [](gm_queries <= 1)
    /\ [](\A h \in Handlers :
            gm_calls[h].pc = "done" =>
                gm_calls[h].returned # None
                    /\ gm_calls[h].returned = global_mean)
    /\ [][global_mean # None =>
            global_mean' = global_mean /\ gm_queries' = gm_queries]_vars

C14_Witness ==
    /\ \A h \in Handlers : gm_calls[h].pc = "done"
    /\ gm_queries = 1
    /\ global_mean = Rat(33, 8)
    /\ db_avg = Rat(7, 2)

-----------------------------------------------------------------------------
(* The greedy step of rerank_with_diversity, under SpecRerank *)

\* baseScore + diversityFactor * |genres - seenGenres| / |genres|
StatedAdjustedScore(rec) ==
    RAdd(BaseScore(rec),
         Rat(diversity_factor * Cardinality(GenreSet(rec) \ seen_genres),
             10 * Cardinality(GenreSet(rec))))

\* the earliest position of remaining that holds the highest adjusted score
EarliestBest ==
    CHOOSE k \in DOMAIN remaining :
        /\ \A j \in DOMAIN remaining :
            RLe(StatedAdjustedScore(remaining[j]),
                StatedAdjustedScore(remaining[k]))
        /\ \A j \in 1..(k - 1) :
            RLt(StatedAdjustedScore(remaining[j]),
                StatedAdjustedScore(remaining[k]))

-----------------------------------------------------------------------------
(* Candidates without genres, and candidates whose genres are all seen *)

\* the score the scan of the current iteration computes for a candidate
ScanScore(rec) == AdjustedScore(rec, seen_genres, diversity_factor)

ZeroBoost(rec) ==
    /\ RLe(ScanScore(rec), BaseScore(rec))
    /\ RLe(BaseScore(rec), ScanScore(rec))

EmptyGenres(rec) == rec.genres = <<>>

\* C16: a candidate whose genres string is empty gets zero boost at every
\* iteration (its adjustedScore equals its base score), with no division
\* by zero, and a candidate whose genres are all in seenGenres gets zero
\* boost.
C16_ZeroBoost ==
    rr_pc = "loop" =>
        \A i \in DOMAIN remaining :
            /\ EmptyGenres(remaining[i]) => ZeroBoost(remaining[i])
            /\ GenreSet(remaining[i]) \subseteq seen_genres =>
                   ZeroBoost(remaining[i])
            /\ GenreSet(remaining[i]) \ seen_genres # {} =>
                   Cardinality(GenreSet(remaining[i])) > 0

\* the parts of C16 that do hold: the divisor is never zero, and a candidate
\* whose split genres are all seen keeps its base score
C16_SeenGenresNoBoost ==
    rr_pc = "loop" =>
        \A i \in DOMAIN remaining :
            /\ Cardinality(GenreSet(remaining[i])) > 0
            /\ GenreSet(remaining[i]) \subseteq seen_genres =>
                   ZeroBoost(remaining[i])

\* a candidate without genres is boosted by the whole diversity factor as
\* long as no chosen candidate had an empty genres string
C16_EmptyGenresBoost ==
    rr_pc = "loop" =>
        \A i \in DOMAIN remaining :
            (EmptyGenres(remaining[i]) /\ <<>> \notin seen_genres) =>
                ScanScore(remaining[i]) =
                    RAdd(BaseScore(remaining[i]), Rat(diversity_factor, 10))

\* the boost decides an iteration: after a candidate of genre A, the
\* candidate without genres was moved ahead of an earlier candidate of
\* genre A with the same base score
C16_BoostedWitness ==
    /\ rr_pc = "loop"
    /\ Len(result) = 2 /\ Len(remaining) = 1
    /\ result[1].genres = <<"A">>
    /\ EmptyGenres(result[2])
    /\ remaining[1].genres = <<"A">>
    /\ remaining[1] = recommendations[2]
    /\ BaseScore(result[2]) = BaseScore(remaining[1])
    /\ diversity_factor = 3

-----------------------------------------------------------------------------
(* Cold-start status over sequences of requests, under Spec *)

CountIn(rows, u) == Cardinality({k \in DOMAIN rows : k[1] = u})
StoredCount(u) == CountIn(ratings, u)

ColdStartRouted ==
    /\ "is_new_user" \in DOMAIN resp /\ resp.is_new_user = TRUE
    /\ Titles = <<"Trending & Highly Rated">>

ClassifiedNotNew ==
    /\ Recommended /\ classified
    /\ "is_new_user" \in DOMAIN resp /\ resp.is_new_user = FALSE

\* C17: the number of stored ratings of a user never decreases: a rate
\* request for an already-rated movie overwrites the rating and leaves the
\* count unchanged, one for a new movie raises it by one, and user records
\* stay.  A user is classified not-new only with 5 or more ratings, so
\* having 5 or more ratings is stable, and every recommendations request for
\* a user with a record and 5 or more ratings is classified, not-new, and
\* not routed to ColdStart.
C17_Monotone ==
    /\ [][\A u \in RequestUserIds : StoredCount(u)' >= StoredCount(u)]_vars
    /\ [][request'.op = "rate" =>
            LET key == <<request'.user_id, request'.movie_id>>
            IN /\ CountIn(ratings', key[1]) = CountIn(ratings, key[1])
                    + (IF key \in DOMAIN ratings THEN 0 ELSE 1)
               /\ ratings'[key] = request'.rating]_vars
    /\ [][DOMAIN users \subseteq DOMAIN users']_vars
    /\ [](ClassifiedNotNew => (HasRecord /\ StoredRatings >= 5))
    /\ [][\A u \in RequestUserIds :
            StoredCount(u) >= 5 => StoredCount(u)' >= 5]_vars
    /\ []((Recommended /\ HasRecord /\ StoredRatings >= 5) =>
            (ClassifiedNotNew /\ ~ColdStartRouted))

\* a user onboarded with ratings of movies 1..5, all liked, whose rating of
\* movie 1 was then overwritten with a low one: still 5 ratings, and the
\* hybrid request that follows is classified not-new
C17_Witness ==
    /\ ClassifiedNotNew
    /\ request.strategy = "hybrid"
    /\ {k[2] : k \in {r \in DOMAIN ratings : r[1] = request.user_id}}
            = 1..5
    /\ ratings[<<request.user_id, 1>>] = Low
    /\ resp.strategy = "hybrid"

\* a user onboarded with 4 ratings became not-new by rating a new movie
C17_BecameNotNew ==
    /\ ClassifiedNotNew
    /\ StoredRatings = 5
    /\ <<request.user_id, MaxMovie + 2>> \in DOMAIN ratings
    /\ <<request.user_id, 1>> \in DOMAIN ratings

====
